---- MODULE Spec2Model ----
(***************************************************************************)
(* Model of java_entity_gen.py: a one-shot batch generator that reads the  *)
(* column metadata of MySQL tables and renders one Java entity class per   *)
(* table.                                                                  *)
(*                                                                         *)
(* Python strings are sequences of one-character strings.  The rendered    *)
(* class is the sequence of the pieces appended to s, one record per       *)
(* appended line.                                                          *)
(***************************************************************************)
EXTENDS Integers, Sequences, FiniteSets, TLC

VARIABLES
    args,             \* parsed command line (ap)
    tables,           \* driver: ap.table.split(',')
    db,               \* the database the cursor queries (environment)
    pc,               \* position of the script
    err,              \* the step at which an exception escaped ("" if none)
    i,                \* loop index of the driver (1-based)
    log,              \* external calls issued so far, in order
    rl,               \* parseSqlTable: rows of DESC
    fields,           \* parseSqlTable: list of SQLField
    ci,               \* parseSqlTable: result of fetch_column_info
    table,            \* driver: the SQLTable of the current iteration
    java_class_name,  \* driver: class name (None or a string)
    fn,               \* driver: output file name
    generated,        \* driver: rendered class
    fs,               \* file system: path -> content
    input,            \* argument of the pure function under check
    result            \* its outcome

vars == <<args, tables, db, pc, err, i, log, rl, fields, ci, table,
          java_class_name, fn, generated, fs, input, result>>

\* what a call of a pure function leaves alone
scriptVars == <<args, tables, db, err, i, log, rl, fields, ci, table,
                java_class_name, fn, generated, fs>>

-----------------------------------------------------------------------------
(* Bounds *)

MaxLen == 4        \* longest string given to to_camel_case
MaxTables == 2     \* most table names in -table
MaxCols == 3       \* most columns of a table

-----------------------------------------------------------------------------
(* Python values *)

None == [some |-> FALSE, v |-> <<>>]
Some(x) == [some |-> TRUE, v |-> x]

Raise(name) == [ok |-> FALSE, v |-> name]
Return(x) == [ok |-> TRUE, v |-> x]

-----------------------------------------------------------------------------
(* str methods *)

LowerLetters == <<"a","b","c","d","e","f","g","h","i","j","k","l","m",
                  "n","o","p","q","r","s","t","u","v","w","x","y","z">>
UpperLetters == <<"A","B","C","D","E","F","G","H","I","J","K","L","M",
                  "N","O","P","Q","R","S","T","U","V","W","X","Y","Z">>
Digits == {"0","1","2","3","4","5","6","7","8","9"}
Spaces == {" ", "\t", "\n"}

IsLowerLetter(c) == \E k \in 1..26 : LowerLetters[k] = c
IsUpperLetter(c) == \E k \in 1..26 : UpperLetters[k] = c
LetterIndex(c, letters) == CHOOSE k \in 1..26 : letters[k] = c

\* str.lower() of one character
LowerChar(c) == IF IsUpperLetter(c) THEN LowerLetters[LetterIndex(c, UpperLetters)]
                ELSE c

\* str.upper() of one character; the sharp s has the two-character
\* upper-case form SS
UpperChar(c) == IF c = "ß" THEN <<"S", "S">>
                ELSE IF IsLowerLetter(c) THEN <<UpperLetters[LetterIndex(c, LowerLetters)]>>
                ELSE <<c>>

RECURSIVE Flatten(_)
Flatten(ss) == IF ss = <<>> THEN <<>> ELSE Head(ss) \o Flatten(Tail(ss))

Lower(s) == [k \in 1..Len(s) |-> LowerChar(s[k])]
Upper(s) == Flatten([k \in 1..Len(s) |-> UpperChar(s[k])])

Min(a, b) == IF a < b THEN a ELSE b

\* s[lo:hi], 0-based, for 0 <= lo
Slice(s, lo, hi) == SubSeq(s, lo + 1, Min(hi, Len(s)))

\* s is found in t at the 0-based offset k
OccursAt(t, s, k) == /\ k >= 0
                     /\ k + Len(s) <= Len(t)
                     /\ SubSeq(t, k + 1, k + Len(s)) = s

\* t.find(s) and t.rfind(s): -1 when absent
Find(t, s) == IF \E k \in 0..Len(t) : OccursAt(t, s, k)
              THEN CHOOSE k \in 0..Len(t) :
                      /\ OccursAt(t, s, k)
                      /\ \A m \in 0..(k - 1) : ~OccursAt(t, s, m)
              ELSE -1
RFind(t, s) == IF \E k \in 0..Len(t) : OccursAt(t, s, k)
               THEN CHOOSE k \in 0..Len(t) :
                       /\ OccursAt(t, s, k)
                       /\ \A m \in (k + 1)..Len(t) : ~OccursAt(t, s, m)
               ELSE -1

EndsWith(t, s) == OccursAt(t, s, Len(t) - Len(s))

\* t.replace(c, d) for a single character c and a string d
Replace(t, c, d) == Flatten([k \in 1..Len(t) |-> IF t[k] = c THEN d ELSE <<t[k]>>])

RECURSIVE LStrip(_)
LStrip(s) == IF s # <<>> /\ Head(s) \in Spaces THEN LStrip(Tail(s)) ELSE s
RECURSIVE RStrip(_)
RStrip(s) == IF s # <<>> /\ s[Len(s)] \in Spaces THEN RStrip(SubSeq(s, 1, Len(s) - 1))
             ELSE s
Strip(s) == RStrip(LStrip(s))

-----------------------------------------------------------------------------
(* Identifier helpers *)

first_char_lower(s) == Lower(Slice(s, 0, 1)) \o Slice(s, 1, Len(s))
first_char_upper(s) == Upper(Slice(s, 0, 1)) \o Slice(s, 1, Len(s))

\* the loop with the flag never cleared
RECURSIVE CamelLoop_flag_kept(_, _, _, _)
CamelLoop_flag_kept(s, k, is_prev_uc, ccs) ==
    IF k > Len(s) THEN ccs
    ELSE IF s[k] = "_" THEN CamelLoop_flag_kept(s, k + 1, TRUE, ccs)
    ELSE IF is_prev_uc THEN CamelLoop_flag_kept(s, k + 1, TRUE, ccs \o UpperChar(s[k]))
    ELSE CamelLoop_flag_kept(s, k + 1, FALSE, ccs \o <<s[k]>>)

\* the loop of to_camel_case over the lowered string s, from position k on
RECURSIVE CamelLoop(_, _, _, _)
CamelLoop(s, k, is_prev_uc, ccs) ==
    IF k > Len(s) THEN ccs
    ELSE IF s[k] = "_" THEN CamelLoop(s, k + 1, TRUE, ccs)
    ELSE IF is_prev_uc THEN CamelLoop(s, k + 1, FALSE, ccs \o UpperChar(s[k]))
    ELSE CamelLoop(s, k + 1, FALSE, ccs \o <<s[k]>>)

to_camel_case(s) == CamelLoop(Lower(s), 1, FALSE, <<>>)

-----------------------------------------------------------------------------
(* Type mapper *)

varchar == <<"v","a","r","c","h","a","r">>
datetime == <<"d","a","t","e","t","i","m","e">>
timestamp == <<"t","i","m","e","s","t","a","m","p">>
int == <<"i","n","t">>
smallint == <<"s","m","a","l","l","i","n","t">>
tinyint == <<"t","i","n","y","i","n","t">>
short == <<"s","h","o","r","t">>
bigint == <<"b","i","g","i","n","t">>
decimal == <<"d","e","c","i","m","a","l">>
char == <<"c","h","a","r">>
text == <<"t","e","x","t">>
json == <<"j","s","o","n">>

MappingKeys == {varchar, datetime, timestamp, int, smallint, tinyint, short,
                bigint, decimal, char, text, json}

sql_java_type_mapping ==
    [k \in MappingKeys |->
        CASE k \in {varchar, char, text, json} -> "String"
          [] k \in {datetime, timestamp} -> "LocalDateTime"
          [] k \in {int, smallint, tinyint, short} -> "Integer"
          [] k = bigint -> "Long"
          [] k = decimal -> "BigDecimal"]

IsWord(c) == IsLowerLetter(c) \/ IsUpperLetter(c) \/ c \in Digits \/ c = "_" \/ c = "ß"
AllIn(s, lo, hi, P(_)) == \A k \in lo..hi : P(s[k])
IsSpace(c) == c \in Spaces
IsDigit(c) == c \in Digits

\* re.match("^\s*(\w+)\(\d+\)\s*$", s): a..b is the group, c the last digit
TypeMatch(s, a, b, c) ==
    /\ 1 <= a /\ a <= b /\ b + 2 <= c /\ c + 1 <= Len(s)
    /\ AllIn(s, 1, a - 1, IsSpace)
    /\ AllIn(s, a, b, IsWord)
    /\ s[b + 1] = "("
    /\ AllIn(s, b + 2, c, IsDigit)
    /\ s[c + 1] = ")"
    /\ AllIn(s, c + 2, Len(s), IsSpace)

extract_sql_type(sql_type) ==
    LET n == Len(sql_type)
        m == \E a, b, c \in 1..n : TypeMatch(sql_type, a, b, c)
    IN IF ~m THEN sql_type
       ELSE LET g == CHOOSE g \in (1..n) \X (1..n) :
                        \E c \in 1..n : TypeMatch(sql_type, g[1], g[2], c)
            IN SubSeq(sql_type, g[1], g[2])

\* the lookup with String for an unknown type
to_java_type_default(sql_type) ==
    LET t == Lower(sql_type)
    IN IF t \notin MappingKeys THEN Return("String")
       ELSE Return(sql_java_type_mapping[t])

to_java_type(sql_type) ==
    LET t == Lower(sql_type)
    IN IF t \notin MappingKeys THEN Raise("ValueError")
       ELSE Return(sql_java_type_mapping[t])

-----------------------------------------------------------------------------
(* Schema reader *)

\* the backtick character (the lexer of TLA+ has no literal for it)
Backtick == "GRAVE"

\* SQLField.__init__
SQLField(field_name, sql_type, comment) ==
    LET sql_field_name == Replace(field_name, Backtick, <<>>)
        jt == to_java_type(sql_type)
    IN IF ~jt.ok THEN jt
       ELSE Return([sql_field_name |-> sql_field_name,
                    sql_type |-> sql_type,
                    comment |-> comment,
                    java_type |-> jt.v,
                    java_field_name |-> to_camel_case(sql_field_name)])

\* SQLTable.__init__
SQLTable(table_name, table_comment, fs_) ==
    [table_name |-> table_name,
     table_comment |-> IF ~table_comment.some THEN <<>> ELSE table_comment.v,
     fields |-> fs_,
     java_type_set |-> {fs_[k].java_type : k \in 1..Len(fs_)}]

is_type_used(t, java_type) == java_type \in t.java_type_set

supply_java_class_name(t) == first_char_upper(to_camel_case(t.table_name))

\* the loop with each field put in front of the list
RECURSIVE BuildLoop_prepend(_, _)
BuildLoop_prepend(rows, acc) ==
    IF rows = <<>> THEN Return(acc)
    ELSE LET r == Head(rows)
             f == SQLField(r[1], extract_sql_type(r[2]), <<>>)
         IN IF ~f.ok THEN f ELSE BuildLoop_prepend(Tail(rows), <<f.v>> \o acc)

\* the loop of parseSqlTable that builds the fields from the rows of DESC
RECURSIVE BuildLoop(_, _)
BuildLoop(rows, acc) ==
    IF rows = <<>> THEN Return(acc)
    ELSE LET r == Head(rows)
             f == SQLField(r[1], extract_sql_type(r[2]), <<>>)
         IN IF ~f.ok THEN f ELSE BuildLoop(Tail(rows), Append(acc, f.v))

\* the dict built by fetch_column_info from the rows (later rows win)
RECURSIVE ColumnInfo(_, _)
ColumnInfo(rows, m) ==
    IF rows = <<>> THEN m
    ELSE LET r == Head(rows)
         IN ColumnInfo(Tail(rows),
                       [k \in DOMAIN m \cup {r[1]} |-> IF k = r[1] THEN r[2] ELSE m[k]])

EmptyDict == [k \in {} |-> <<>>]

-----------------------------------------------------------------------------
(* Class renderer *)

Line(kind, type, name, txt) == [kind |-> kind, type |-> type, name |-> name, text |-> txt]

If(c, lines) == IF c THEN lines ELSE <<>>

\* pystuff.str_matches: equality ignoring case
str_matches(t, v) == Lower(t) = Lower(v)

id == <<"i","d">>

\* the field block with @TableField on every field
FieldLines_no_TableId(f, mbp_ft) ==
    <<Line("field_comment", "", <<>>, f.comment)>>
    \o If(mbp_ft, <<Line("TableField", "", f.sql_field_name, <<>>)>>)
    \o <<Line("field_decl", f.java_type, f.java_field_name, <<>>)>>

FieldLines(f, mbp_ft) ==
    <<Line("field_comment", "", <<>>, f.comment)>>
    \o If(mbp_ft,
          IF str_matches(f.sql_field_name, id)
          THEN <<Line("TableId", "", <<>>, <<>>)>>
          ELSE <<Line("TableField", "", f.sql_field_name, <<>>)>>)
    \o <<Line("field_decl", f.java_type, f.java_field_name, <<>>)>>

AccessorLines(f) ==
    LET us == first_char_upper(f.java_field_name)
    IN <<Line("getter_sig", f.java_type, us, <<>>),
         Line("getter_body", "", f.java_field_name, <<>>),
         Line("method_close", "", <<>>, <<>>),
         Line("setter_sig", f.java_type, us, f.java_field_name),
         Line("setter_body", "", f.java_field_name, <<>>),
         Line("method_close", "", <<>>, <<>>)>>

generate_java_class(t, ap, spec_class_name, package) ==
    LET mbp_ft == ap.mybatis
        lambok_ft == ap.lambok
        class_name == IF spec_class_name.some THEN spec_class_name.v
                      ELSE supply_java_class_name(t)
        canonical == ap.extends
        r == RFind(canonical, <<".">>)
        n == Len(t.fields)
    IN If(package.some, <<Line("package", "", <<>>, package.v)>>)
       \o If(is_type_used(t, "LocalDateTime"), <<Line("import_time", "", <<>>, <<>>)>>)
       \o If(is_type_used(t, "BigDecimal"), <<Line("import_math", "", <<>>, <<>>)>>)
       \o <<Line("blank", "", <<>>, <<>>)>>
       \o If(mbp_ft, <<Line("import_mybatisplus", "", <<>>, <<>>)>>)
       \o <<Line("blank", "", <<>>, <<>>)>>
       \o If(lambok_ft, <<Line("import_lombok", "", <<>>, <<>>)>>)
       \o If(ap.extends # <<>>, <<Line("import_extends", "", <<>>, Strip(ap.extends))>>)
       \o <<Line("blank", "", <<>>, <<>>),
            Line("doc_open", "", <<>>, <<>>),
            Line("doc_comment", "", <<>>, t.table_comment)>>
       \o If(ap.author # <<>>, <<Line("doc_blank", "", <<>>, <<>>),
                                 Line("doc_author", "", <<>>, ap.author)>>)
       \o <<Line("doc_close", "", <<>>, <<>>)>>
       \o If(lambok_ft, <<Line("Data", "", <<>>, <<>>)>>)
       \o If(mbp_ft, <<Line("TableName", "", t.table_name, <<>>)>>)
       \o <<Line("class_decl", "", class_name,
                 IF ap.extends # <<>> THEN Slice(canonical, r + 1, Len(canonical))
                 ELSE <<>>)>>
       \o Flatten([k \in 1..n |-> FieldLines(t.fields[k], mbp_ft)])
       \o If(~lambok_ft, Flatten([k \in 1..n |-> AccessorLines(t.fields[k])]))
       \o <<Line("class_close", "", <<>>, <<>>)>>

src_main_java == <<"s","r","c","/","m","a","i","n","/","j","a","v","a">>

guess_package(path) ==
    LET hi == RFind(path, <<"/">>)
        lo == Find(path, src_main_java)
    IN IF hi = -1 THEN None
       ELSE IF lo = -1 THEN None
       ELSE Some(Replace(Slice(path, lo + Len(src_main_java) + 1, hi), "/", <<".">>))

-----------------------------------------------------------------------------
(* Driver *)

\* s.split(c) for a single character c
RECURSIVE SplitLoop(_, _, _, _)
SplitLoop(s, c, k, cur) ==
    IF k > Len(s) THEN <<cur>>
    ELSE IF s[k] = c THEN <<cur>> \o SplitLoop(s, c, k + 1, <<>>)
    ELSE SplitLoop(s, c, k + 1, Append(cur, s[k]))
Split(s, c) == SplitLoop(s, c, 1, <<>>)

dot_java == <<".","j","a","v","a">>

\* an external call: what was called, on what, in which iteration, whether
\* it returned, and the data it was given
Call(op, arg, ok) == [op |-> op, arg |-> arg, idx |-> i, ok |-> ok, data |-> <<>>]
Written(path, data) == [op |-> "write", arg |-> path, idx |-> i, ok |-> TRUE, data |-> data]

\* a failed step that is tried again
Fail_retry(step) == /\ pc' = pc
                    /\ err' = step

Fail(step) == /\ pc' = "failed"
              /\ err' = step

\* what the database holds under a table name
Missing == [exists |-> FALSE, desc |-> <<>>, info |-> <<>>, tc |-> <<>>]
Schema(name) == IF name \in DOMAIN db THEN db[name] ELSE Missing

\* the loop left one table early
LoopPc_early(k) == IF k < Len(tables) THEN "desc" ELSE "close_cursor"

\* where the for loop goes with index k
LoopPc(k) == IF k <= Len(tables) THEN "desc" ELSE "close_cursor"

ParseArgs ==
    /\ pc = "start"
    /\ \/ /\ args.table.some
          /\ tables' = Split(args.table.v, ",")
          /\ pc' = "connect"
          /\ err' = err
       \/ /\ ~args.table.some
          /\ Fail("split")
          /\ tables' = tables
    /\ UNCHANGED <<args, db, i, log, rl, fields, ci, table, java_class_name,
                   fn, generated, fs, input, result>>

Connect ==
    /\ pc = "connect"
    /\ \/ /\ log' = log \o <<Call("connect", <<>>, TRUE), Call("cursor", <<>>, TRUE)>>
          /\ i' = 1
          /\ pc' = LoopPc(1)
          /\ err' = err
       \/ /\ log' = Append(log, Call("connect", <<>>, FALSE))
          /\ Fail("connect")
          /\ i' = i
    /\ UNCHANGED <<args, tables, db, rl, fields, ci, table, java_class_name,
                   fn, generated, fs, input, result>>

\* parseSqlTable up to cursor.fetchall() of DESC
DescQuery ==
    /\ pc = "desc"
    /\ \/ /\ Schema(tables[i]).exists
          /\ log' = Append(log, Call("DESC", tables[i], TRUE))
          /\ rl' = Schema(tables[i]).desc
          /\ fields' = <<>>
          /\ pc' = "build"
          /\ err' = err
       \/ /\ log' = Append(log, Call("DESC", tables[i], FALSE))
          /\ Fail("desc")
          /\ UNCHANGED <<rl, fields>>
    /\ UNCHANGED <<args, tables, db, i, ci, table, java_class_name,
                   fn, generated, fs, input, result>>

BuildFields ==
    /\ pc = "build"
    /\ LET r == BuildLoop(rl, <<>>)
       IN \/ /\ r.ok
             /\ fields' = r.v
             /\ pc' = "colinfo"
             /\ err' = err
          \/ /\ ~r.ok
             /\ Fail("build")
             /\ fields' = fields
    /\ UNCHANGED <<args, tables, db, i, log, rl, ci, table, java_class_name,
                   fn, generated, fs, input, result>>

FetchColumnInfo ==
    /\ pc = "colinfo"
    /\ \/ /\ log' = Append(log, Call("SELECT column_comment", tables[i], TRUE))
          /\ ci' = ColumnInfo(Schema(tables[i]).info, EmptyDict)
          /\ pc' = "comments"
          /\ err' = err
       \/ /\ log' = Append(log, Call("SELECT column_comment", tables[i], FALSE))
          /\ Fail("colinfo")
          /\ ci' = ci
    /\ UNCHANGED <<args, tables, db, i, rl, fields, table, java_class_name,
                   fn, generated, fs, input, result>>

\* for f in fields: f.comment = ci[f.sql_field_name]
AssignComments ==
    /\ pc = "comments"
    /\ LET known(k) == fields[k].sql_field_name \in DOMAIN ci
           done(k) == \A m \in 1..k : known(m)
       IN /\ fields' = [k \in 1..Len(fields) |->
                           IF done(k)
                           THEN [fields[k] EXCEPT !.comment = ci[fields[k].sql_field_name]]
                           ELSE fields[k]]
          /\ \/ /\ done(Len(fields))
                /\ pc' = "tcomment"
                /\ err' = err
             \/ /\ ~done(Len(fields))
                /\ Fail("comments")
    /\ UNCHANGED <<args, tables, db, i, log, rl, ci, table, java_class_name,
                   fn, generated, fs, input, result>>

\* fetch_table_comment and the construction of the SQLTable
FetchTableComment ==
    /\ pc = "tcomment"
    /\ LET r == Schema(tables[i]).tc
       IN \/ /\ r # <<>>
             /\ log' = Append(log, Call("SELECT table_comment", tables[i], TRUE))
             /\ table' = SQLTable(tables[i], r[1], fields)
             /\ pc' = "name"
             /\ err' = err
          \/ /\ r = <<>>
             /\ log' = Append(log, Call("SELECT table_comment", tables[i], TRUE))
             /\ Fail("tcomment")
             /\ table' = table
          \/ /\ log' = Append(log, Call("SELECT table_comment", tables[i], FALSE))
             /\ Fail("tcomment")
             /\ table' = table
    /\ UNCHANGED <<args, tables, db, i, rl, fields, ci, java_class_name,
                   fn, generated, fs, input, result>>

\* the class name and file name chosen by the driver
NameOf(t, output) ==
    LET hi == RFind(output, dot_java)
        slash == RFind(output, <<"/">>)
        lo == IF slash = -1 THEN 0 ELSE slash + 1
        named == output # <<>> /\ hi > -1
        dir == IF output = <<>> THEN <<>>
               ELSE IF EndsWith(output, <<"/">>) THEN output
               ELSE output \o <<"/">>
    IN IF named
       THEN [java_class_name |-> Some(Slice(output, lo, hi)), fn |-> output]
       ELSE [java_class_name |-> Some(supply_java_class_name(t)),
             fn |-> dir \o supply_java_class_name(t) \o dot_java]

ResolveName ==
    /\ pc = "name"
    /\ java_class_name' = NameOf(table, args.output).java_class_name
    /\ fn' = NameOf(table, args.output).fn
    /\ pc' = "generate"
    /\ UNCHANGED <<args, tables, db, err, i, log, rl, fields, ci, table,
                   generated, fs, input, result>>

Generate ==
    /\ pc = "generate"
    /\ generated' = generate_java_class(table, args, java_class_name, guess_package(fn))
    /\ pc' = "open"
    /\ UNCHANGED <<args, tables, db, err, i, log, rl, fields, ci, table,
                   java_class_name, fn, fs, input, result>>

\* the file system after path p received content c
Put(p, c) == [q \in DOMAIN fs \cup {p} |-> IF q = p THEN c ELSE fs[q]]

\* open(fn, "w"): creates or truncates the file
OpenFile ==
    /\ pc = "open"
    /\ \/ /\ fn # <<>> /\ ~EndsWith(fn, <<"/">>)
          /\ log' = Append(log, Call("open", fn, TRUE))
          /\ fs' = Put(fn, <<>>)
          /\ pc' = "write"
          /\ err' = err
       \/ /\ log' = Append(log, Call("open", fn, FALSE))
          /\ Fail("open")
          /\ fs' = fs
    /\ UNCHANGED <<args, tables, db, i, rl, fields, ci, table, java_class_name,
                   fn, generated, input, result>>

\* what a write that raises can leave of the data in the opened file:
\* nothing, or a part that was flushed before the error
Flushed(data) == {SubSeq(data, 1, n) : n \in {0, Len(data) \div 2}}

\* f.write(generated); f.close(); and the step of the for loop
WriteFile ==
    /\ pc = "write"
    /\ \/ /\ log' = Append(log, Written(fn, generated))
          /\ fs' = Put(fn, generated)
          /\ i' = i + 1
          /\ pc' = LoopPc(i + 1)
          /\ err' = err
       \/ /\ log' = Append(log, Call("write", fn, FALSE))
          /\ Fail("write")
          /\ \E part \in Flushed(generated) : fs' = Put(fn, part)
          /\ i' = i
    /\ UNCHANGED <<args, tables, db, rl, fields, ci, table, java_class_name,
                   fn, generated, input, result>>

CloseCursor ==
    /\ pc = "close_cursor"
    /\ \/ /\ log' = Append(log, Call("cursor.close", <<>>, TRUE))
          /\ pc' = "close_cnx"
          /\ err' = err
       \/ /\ log' = Append(log, Call("cursor.close", <<>>, FALSE))
          /\ Fail("close_cursor")
    /\ UNCHANGED <<args, tables, db, i, rl, fields, ci, table, java_class_name,
                   fn, generated, fs, input, result>>

CloseCnx ==
    /\ pc = "close_cnx"
    /\ \/ /\ log' = Append(log, Call("cnx.close", <<>>, TRUE))
          /\ pc' = "done"
          /\ err' = err
       \/ /\ log' = Append(log, Call("cnx.close", <<>>, FALSE))
          /\ Fail("close_cnx")
    /\ UNCHANGED <<args, tables, db, i, rl, fields, ci, table, java_class_name,
                   fn, generated, fs, input, result>>

Next ==
    \/ ParseArgs
    \/ Connect
    \/ DescQuery
    \/ BuildFields
    \/ FetchColumnInfo
    \/ AssignComments
    \/ FetchTableComment
    \/ ResolveName
    \/ Generate
    \/ OpenFile
    \/ WriteFile
    \/ CloseCursor
    \/ CloseCnx

-----------------------------------------------------------------------------
(* Inputs *)

t_a == <<"t","_","a">>
t__a == <<"t","_","_","a">>
t_dec == <<"t","_","d","e","c">>
t_nocols == <<"t","_","n","o","c","o","l","s">>
t_gone == <<"t","_","g","o","n","e">>
t_order == <<"t","_","o","r","d","e","r">>

c_id == <<<<"i","d">>, <<"i","n","t","(","1","1",")">>>>
c_ID == <<<<"I","D">>, <<"B","I","G","I","N","T","(","2","0",")">>>>
c_order_no == <<<<"o","r","d","e","r","_","n","o">>, <<"v","a","r","c","h","a","r","(","6","4",")">>>>
c_created_at == <<<<"c","r","e","a","t","e","d","_","a","t">>, <<"d","a","t","e","t","i","m","e">>>>
c_amount == <<<<"a","m","o","u","n","t">>, <<"d","e","c","i","m","a","l","(","1","0",",","2",")">>>>
c_blob == <<<<"b">>, <<"b","l","o","b">>>>

a_comment == <<"c">>

out_dir == <<"d">>
out_dir_slash == <<"d","/">>
out_bare_file == <<"X",".","j","a","v","a">>
out_file == <<"d","/","X",".","j","a","v","a">>
out_java_dir == <<"x",".","j","a","v","a",".","d">>
out_src_file == <<"s","r","c","/","m","a","i","n","/","j","a","v","a","/","p","/","X",".","j","a","v","a">>

base_class == <<" ","p",".","B">>
author_name == <<"m","e">>

\* the rows of information_schema.columns for the rows of DESC
InfoOf(desc) == [k \in 1..Len(desc) |-> <<desc[k][1], a_comment>>]

Table(desc, info, tc) == [exists |-> TRUE, desc |-> desc, info |-> info, tc |-> tc]

\* a database with two tables whose names give the same class name, a
\* table with a decimal(10,2) column, a table whose DESC has no rows, and
\* no table t_gone
Database ==
    [n \in {t_a, t__a, t_dec, t_nocols} |->
        CASE n = t_a -> Table(<<c_id, c_order_no>>, InfoOf(<<c_id, c_order_no>>),
                              <<Some(a_comment)>>)
          [] n = t__a -> Table(<<c_created_at>>, InfoOf(<<c_created_at>>), <<None>>)
          [] n = t_dec -> Table(<<c_id, c_amount>>, InfoOf(<<c_id, c_amount>>),
                                <<Some(a_comment)>>)
          [] n = t_nocols -> Table(<<>>, <<>>, <<Some(a_comment)>>)]

TableNames == {t_a, t__a, t_dec, t_nocols, t_gone}

RECURSIVE Join(_)
Join(names) == IF Len(names) = 1 THEN names[1]
               ELSE names[1] \o <<",">> \o Join(Tail(names))

TableLists == UNION {[1..n -> TableNames] : n \in 1..MaxTables}

Flags == {[mybatis |-> FALSE, lambok |-> FALSE, extends |-> <<>>, author |-> <<>>],
          [mybatis |-> TRUE, lambok |-> TRUE, extends |-> base_class,
           author |-> author_name]}

Args(tbl, output, fl) ==
    [table |-> tbl, output |-> output, mybatis |-> fl.mybatis, lambok |-> fl.lambok,
     extends |-> fl.extends, author |-> fl.author]

\* the state of the script before its first statement
Idle ==
    /\ tables = <<>>
    /\ err = ""
    /\ i = 0
    /\ log = <<>>
    /\ rl = <<>>
    /\ fields = <<>>
    /\ ci = EmptyDict
    /\ table = SQLTable(<<>>, None, <<>>)
    /\ java_class_name = None
    /\ fn = <<>>
    /\ generated = <<>>
    /\ fs = EmptyDict

Init ==
    /\ pc = "start"
    /\ db = Database
    /\ args \in {Args(Some(Join(l)), o, fl) :
                    l \in TableLists,
                    o \in {<<>>, out_dir, out_dir_slash, out_file, out_bare_file},
                    fl \in Flags}
                \cup {Args(None, <<>>, fl) : fl \in Flags}
    /\ Idle
    /\ input = <<>>
    /\ result = None

Spec == Init /\ [][Next]_vars

\* the sequences over a set without two equal elements, up to a length
Injective(S, n) ==
    UNION {{q \in [1..m -> S] : \A a, b \in 1..m : a # b => q[a] # q[b]} : m \in 0..n}

Columns == {c_id, c_ID, c_order_no, c_created_at, c_blob}

\* column names are unique in a table, whatever their case
ColumnLists == {q \in Injective(Columns, MaxCols) :
                   \A a, b \in 1..Len(q) : a # b => Lower(q[a][1]) # Lower(q[b][1])}

InitRender ==
    /\ pc = "start"
    /\ \E desc \in ColumnLists :
       \E info \in {InfoOf(desc), <<>>} :
       \E tc \in {<<>>, <<None>>, <<Some(a_comment)>>} :
          db = [n \in {t_order} |-> Table(desc, info, tc)]
    /\ args \in {Args(Some(t_order), o, [mybatis |-> m, lambok |-> l,
                                         extends |-> e[1], author |-> e[2]]) :
                    o \in {<<>>, out_src_file, out_java_dir},
                    m \in BOOLEAN, l \in BOOLEAN,
                    e \in {<<<<>>, <<>>>>, <<base_class, author_name>>}}
    /\ Idle
    /\ input = <<>>
    /\ result = None

SpecRender == InitRender /\ [][Next]_vars

-----------------------------------------------------------------------------
(* The pure functions on their own *)

user_id == <<"u","s","e","r","_","i","d">>
ORDER_NUM == <<"O","R","D","E","R","_","N","U","M">>

CamelAlphabet == {"_", "a", "B", "ß"}

CamelInputs == UNION {[1..n -> CamelAlphabet] : n \in 0..MaxLen}
               \cup {user_id, id, ORDER_NUM}

InitCamel ==
    /\ pc = "to_camel_case"
    /\ input \in CamelInputs
    /\ result = None
    /\ args = Args(None, <<>>, [mybatis |-> FALSE, lambok |-> FALSE,
                                extends |-> <<>>, author |-> <<>>])
    /\ db = EmptyDict
    /\ Idle

ApplyCamel ==
    /\ pc = "to_camel_case"
    /\ result' = Some(to_camel_case(input))
    /\ pc' = "returned"
    /\ UNCHANGED <<scriptVars, input>>

NextCamel == ApplyCamel

SpecCamel == InitCamel /\ [][NextCamel]_vars

\* letter cases in which a schema may spell a type keyword
Casings == {"lower", "upper", "capitalized"}
Spell(kw, casing) == CASE casing = "lower" -> kw
                       [] casing = "upper" -> Upper(kw)
                       [] casing = "capitalized" -> first_char_upper(kw)

\* length and precision suffixes of a column type
Suffixes == {<<>>, <<"(","2","5","5",")">>, <<"(","1","1",")">>, <<"(","1","0",",","2",")">>}

blob == <<"b","l","o","b">>
float == <<"f","l","o","a","t">>

TypeInputs == {[kw |-> kw, s |-> Spell(kw, c) \o x] :
                  kw \in MappingKeys \cup {blob, float}, c \in Casings, x \in Suffixes}

InitType ==
    /\ pc = "to_java_type"
    /\ input \in TypeInputs
    /\ result = None
    /\ args = Args(None, <<>>, [mybatis |-> FALSE, lambok |-> FALSE,
                                extends |-> <<>>, author |-> <<>>])
    /\ db = EmptyDict
    /\ Idle

\* to_java_type(extract_sql_type(s)), as SQLField is given its type
ResolveType ==
    /\ pc = "to_java_type"
    /\ result' = Some(to_java_type(extract_sql_type(input.s)))
    /\ pc' = "returned"
    /\ UNCHANGED <<scriptVars, input>>

NextType == ResolveType

SpecType == InitType /\ [][NextType]_vars

-----------------------------------------------------------------------------
(* Properties of to_camel_case, under SpecCamel *)

Underscores(s) == Cardinality({k \in 1..Len(s) : s[k] = "_"})

\* character k of s as the scan emits it: nothing for an underscore, the
\* upper-case form right after an underscore, the lower-case form otherwise
Emitted(s, k) ==
    IF s[k] = "_" THEN <<>>
    ELSE IF k > 1 /\ s[k - 1] = "_" THEN UpperChar(LowerChar(s[k]))
    ELSE <<LowerChar(s[k])>>

CamelScan(s) == Flatten([k \in 1..Len(s) |-> Emitted(s, k)])

CamelExamples ==
    /\ input = user_id => result.v = <<"u","s","e","r","I","d">>
    /\ input = id => result.v = <<"i","d">>
    /\ input = ORDER_NUM => result.v = <<"o","r","d","e","r","N","u","m">>

\* every character of s has an upper-case form of one character
SingleCased(s) == \A k \in 1..Len(s) : Len(UpperChar(LowerChar(s[k]))) = 1

-----------------------------------------------------------------------------
(* Properties of the type mapper, under SpecType *)

\* C1: every key of the type mapping, in any letter case, bare or followed
\* by a parenthesized length or precision, resolves through extract_sql_type
\* and to_java_type to the Java type of that key.
C1_ResolvesSupported ==
    (pc = "returned" /\ input.kw \in MappingKeys) =>
        result.v = Return(sql_java_type_mapping[input.kw])

-----------------------------------------------------------------------------
(* Properties of one table's class, under SpecRender *)

\* the lines of a rendered class of the kinds K, in order
Lines(g, K) == SelectSeq(g, LAMBDA ln : ln.kind \in K)

\* the positions of a rendered class at which a line of the kinds K stands
Positions(g, K) == {k \in 1..Len(g) : g[k].kind \in K}

\* the column name and the type keyword of a row of DESC
ColumnName(r) == Replace(r[1], Backtick, <<>>)
Keyword(r) == Lower(extract_sql_type(r[2]))

RowsKnown(rows) == \A k \in 1..Len(rows) : Keyword(rows[k]) \in MappingKeys

Typed(fs_) == \A k \in 1..Len(fs_) :
                 /\ Lower(fs_[k].sql_type) \in MappingKeys
                 /\ fs_[k].java_type = sql_java_type_mapping[Lower(fs_[k].sql_type)]

\* the positions of the script after the fields of the table were built
AfterBuild == {"colinfo", "comments", "tcomment", "name", "generate", "open",
               "write", "close_cursor", "close_cnx", "done"}

\* C2: a type that is not a key of the mapping makes to_java_type fail, never
\* return a default: every SQLField and SQLTable has the mapping's type for
\* its lowercased sql_type, the script does not get past the construction of
\* the fields of a table with an unmapped column, and nothing is rendered or
\* written for it.
C2_NoDefaultType ==
    /\ Typed(fields)
    /\ Typed(table.fields)
    /\ pc \in AfterBuild => RowsKnown(rl)
    /\ ~RowsKnown(rl) => (generated = <<>> /\ fs = EmptyDict)

C2_Witness ==
    /\ pc = "failed"
    /\ err = "build"
    /\ \E k \in 1..Len(rl) : Keyword(rl[k]) = blob
    /\ rl[1] = c_id
    /\ fields = <<>>

\* C5 as stated: when DESC returns no rows, parseSqlTable raises whatever
\* the two information-schema queries return: no SQLTable without columns
\* is returned and no class without fields is written.
C5_NoEmptyTable ==
    /\ pc \in {"name", "generate", "open", "write"} => table.fields # <<>>
    /\ \A p \in DOMAIN fs : fs[p] # <<>> => Lines(fs[p], {"field_decl"}) # <<>>

\* generated holds the class of the table of this iteration
Rendered == pc \in {"open", "write"}

\* the name of the accessors of column k
AccessorName(r) == first_char_upper(to_camel_case(ColumnName(r)))

OrmKinds == {"import_mybatisplus", "TableName", "TableId", "TableField"}

-----------------------------------------------------------------------------
(* Properties of the class and file names *)

\* the name in the class declaration of a rendered class
ClassOf(g) == Lines(g, {"class_decl"})[1].name

\* the last segment of a path
Basename(p) == Slice(p, RFind(p, <<"/">>) + 1, Len(p))

\* the file stem of a path that ends in .java
Stem(p) == Slice(Basename(p), 0, Len(Basename(p)) - Len(dot_java))

\* C6 as stated (under SpecRender): the declared class name is
\* spec_class_name whenever it is given; the driver gives the file stem of
\* -output when -output names a .java file, and only otherwise the name
\* first_char_upper(to_camel_case(table_name)).
C6_NamePrecedence ==
    Rendered =>
        /\ java_class_name.some => ClassOf(generated) = java_class_name.v
        /\ ClassOf(generated) =
              IF EndsWith(args.output, dot_java) THEN Stem(args.output)
              ELSE first_char_upper(to_camel_case(tables[i]))

Distinct(q) == \A a, b \in 1..Len(q) : a # b => q[a] # q[b]

\* C3 as stated (under Spec): after a run without error over n distinct
\* tables there are n files, each named <ClassName>.java for the class in
\* it, whether -output is a directory or a .java path.
C3_OneFilePerTable ==
    (pc = "done" /\ Distinct(tables)) =>
        /\ Cardinality(DOMAIN fs) = Len(tables)
        /\ \A p \in DOMAIN fs : Basename(p) = ClassOf(fs[p]) \o dot_java

-----------------------------------------------------------------------------
(* Properties of the driver, under Spec *)

\* the steps of the loop over the tables that can raise
LoopSteps == {"desc", "build", "colinfo", "comments", "tcomment", "open", "write"}

Wrote(k) == log[k].op = "write" /\ log[k].ok

\* entry k of the log is the last write to its path by a table before i
LastEarlierWrite(k) ==
    /\ Wrote(k)
    /\ log[k].idx < i
    /\ \A m \in (k + 1)..Len(log) :
          ~(Wrote(m) /\ log[m].idx < i /\ log[m].arg = log[k].arg)

\* the files written for the tables before i are as they were written
EarlierFilesKept ==
    \A k \in 1..Len(log) : LastEarlierWrite(k) => fs[log[k].arg] = log[k].data

\* the same, but for the file that table i had opened for writing
EarlierFilesKeptButOpened ==
    \A k \in 1..Len(log) :
        LastEarlierWrite(k) =>
            \/ fs[log[k].arg] = log[k].data
            \/ /\ err = "write"
               /\ log[k].arg = fn
               /\ fs[fn] \in Flushed(generated)

\* the step that fails issues at most the failing call, touches no file but
\* the one it has open and completes no class in it, and nothing is called
\* or written after it
Halts ==
    /\ err # "" => (log' = log /\ fs' = fs)
    /\ (err = "" /\ err' \in LoopSteps) =>
          /\ err' # "write" => fs' = fs
          /\ err' = "write" => /\ DOMAIN fs' = DOMAIN fs
                               /\ \A p \in DOMAIN fs : p # fn => fs'[p] = fs[p]
                               /\ fs'[fn] # generated
          /\ Len(log') <= Len(log) + 1
          /\ SubSeq(log', 1, Len(log)) = log
          /\ \A k \in 1..Len(log') : log'[k].idx <= i

\* C4 as stated: a failure of table i at any step surfaces at once: no query
\* and no file write follows for table i or a later table, and the files
\* written for the tables before i are left as written.
C4_AsStated ==
    [][/\ Halts
       /\ (err = "" /\ err' \in LoopSteps) => EarlierFilesKept']_vars

\* C4 amended: as C4, but the file of an earlier table is left as written
\* unless table i has the same file name and fails in the write after opening
\* it, which leaves that file empty or with a part of the class of table i.
C4_FailureHalts ==
    [][/\ Halts
       /\ (err = "" /\ err' \in LoopSteps) => EarlierFilesKeptButOpened']_vars

C4_Witness ==
    /\ pc = "failed"
    /\ err = "build"
    /\ i = 2
    /\ tables = <<t_a, t_dec>>
    /\ \E p \in DOMAIN fs : fs[p] # <<>>
    /\ log[Len(log)].op = "DESC"

At(op) == {k \in 1..Len(log) : log[k].op = op}

Work == At("DESC") \cup At("SELECT column_comment") \cup At("SELECT table_comment")
        \cup At("open") \cup At("write")

\* C10: one connection and one cursor are opened before the first table;
\* the cursor and then the connection are closed once, after the file of the
\* last table was written; nothing is queried after the close; and a run in
\* which a table fails closes neither.
C10_ConnectionLifecycle ==
    /\ \A op \in {"connect", "cursor", "cursor.close", "cnx.close"} :
          Cardinality(At(op)) <= 1
    /\ \A w \in Work : \E c \in At("connect") : \E u \in At("cursor") :
          c < u /\ u < w /\ log[c].ok
    /\ \A c \in At("cursor.close") \cup At("cnx.close") : \A w \in Work : w < c
    /\ \A x \in At("cnx.close") : \E c \in At("cursor.close") : c < x /\ log[c].ok
    /\ At("cursor.close") # {} =>
          \A t \in 1..Len(tables) : \E w \in At("write") : log[w].ok /\ log[w].idx = t
    /\ err \in LoopSteps => (At("cursor.close") = {} /\ At("cnx.close") = {})
    /\ pc = "done" => \E c \in At("cursor.close") : \E x \in At("cnx.close") :
                         log[c].ok /\ log[x].ok

C10_Witness ==
    /\ pc = "done"
    /\ Len(tables) = 2
    /\ Cardinality(At("write")) = 2
    /\ log[Len(log)].op = "cnx.close"
    /\ log[Len(log) - 1].op = "cursor.close"

====
